---- MODULE Spec2Model ----
(***************************************************************************)
(* A model of the acquisition pipeline of proxy-agent:                     *)
(*   ProxyManager        src/src/utils/proxy_pool.py                       *)
(*   DataFetcher         src/src/services/data_fetcher.py                  *)
(*   _upsert_quotes      src/src/tasks/scheduled_tasks.py                  *)
(*   fetch_daily_data_task / manual_fetch_task  (the run)                  *)
(* Specifications:                                                         *)
(*   SpecPool   the pool's operations called in any order                  *)
(*   SpecFetch  one fetch_daily_quotes call over any pool and any source   *)
(*   SpecStore  _upsert_quotes followed by the caller's commit             *)
(*   SpecRun    one task run from SessionLocal() to db.close()             *)
(***************************************************************************)
EXTENDS Integers, Sequences, FiniteSets

VARIABLES
    \* ProxyManager
    proxies,          \* self.proxies: the active list
    failed_proxies,   \* self.failed_proxies
    current_index,    \* self.current_index
    get_result,       \* what the latest get_proxy call gave: a proxy, None or IndexError
    \* DataFetcher.fetch_daily_quotes, one call
    fpc,              \* "idle", "attempt" (at the while test) or "returned"
    max_retries,      \* the max_retries argument
    retry_count,      \* the local retry_count
    script,           \* the remote source: script[k] is what its k-th call does
    fetch_result,     \* how the call ended: Series, EmptyResult, Failure or RateLimited
    remote_calls,     \* the ak.stock_zh_a_hist calls issued, in order
    sleeps,           \* the time.sleep calls of the except block, in order
    removed,          \* the proxies handed to remove_proxy, in order
    start_pool,       \* self.proxies when the call started
    wait_answers,     \* how self.frequency_controller.wait_if_needed() can end
    last_wait,        \* how the latest wait_if_needed() of the call ended
    \* the daily_quotes table and the calls of _upsert_quotes
    db_rows,          \* the committed rows, each with its autoincrement id
    batch_size,       \* settings.data_fetch_batch_size
    last_upsert,      \* the latest committed _upsert_quotes call: its stock_code and records
    \* fetch_daily_data_task / manual_fetch_task, one run
    rpc,              \* where the run is: created, resolve, loop, fetching, handler, except, done
    fetch_type,       \* "scheduled" or "manual"
    stock_codes,      \* manual_fetch_task's argument: None or a list of codes
    cfg_max_retries,  \* settings.max_retries
    stock_list,       \* the rows the universe query returned, as their codes
    idx,              \* how many elements of stock_list the for loop has taken
    stocks_processed, \* the local counter
    records_inserted, \* the local counter
    fh_db,            \* the fetch_history row as stored: status absent, running, success or failed
    run_return,       \* how the task ended: returned success, returned failed, or raised
    raised_at,        \* where the exception the outer except caught came from
    body_error,       \* the exception the per-instrument except caught: data or store
    session_new,      \* the instruments whose writes the session holds uncommitted
    leaked,           \* the instruments whose failed writes a later commit stored
    processed,        \* per instrument taken by the loop: what its fetch and its persistence did
    \* one FrequencyController and the threads calling it; time in ticks
    tokens,           \* self.tokens, in units of 1/TicksPerToken of a token
    since,            \* time.time() - self.last_update
    lim_clock,        \* the time since the controller was built
    granted,          \* how often can_request() returned True, up to the first reset()
    was_reset,        \* whether reset() was called
    lim_callers,      \* the threads that call the controller
    lim_timeouts,     \* the timeout arguments they give to wait_if_needed
    wpc,              \* per thread: idle, or where in wait_if_needed it is
    wtimeout,         \* per thread: the timeout argument of its wait_if_needed
    welapsed,         \* per thread: time.time() - start_time
    wbound,           \* per thread: whether the local wait_seconds has a value
    wret,             \* per thread: how its latest call ended
    lim_last,         \* the latest can_request(): who, the bucket before, the gap, the result
    \* the threads of two runs calling one ProxyManager
    tpc,              \* per thread: idle, or the statement of the method it is about to run
    targ,             \* per thread: the proxy argument of its add_proxy or remove_proxy
    tloc,             \* per thread: the local proxy of its get_proxy
    tres,             \* per thread: how its latest call ended
    \* the get_proxy calls of one caller since the pool was last changed
    served,           \* what the get_proxy calls returned since the latest other call
    served_from,      \* self.current_index when the first of them was made
    served_after,     \* the method called before the first of them
    \* two runs, each with its own session, upserting into one daily_quotes table
    upc,              \* per run: idle, inside _upsert_quotes, or committed
    ucode,            \* per run: the stock_code of its _upsert_quotes call
    urecords,         \* per run: the records of the call
    usess             \* per run: its session when _upsert_quotes returned

poolVars == <<proxies, failed_proxies, current_index, get_result>>
fetchVars == <<fpc, max_retries, retry_count, script, fetch_result, remote_calls,
               sleeps, removed, start_pool, wait_answers, last_wait>>
storeVars == <<db_rows, batch_size, last_upsert>>
runVars == <<rpc, fetch_type, stock_codes, cfg_max_retries, stock_list, idx,
             stocks_processed, records_inserted, fh_db, run_return, raised_at,
             body_error, processed, session_new, leaked>>
limVars == <<tokens, since, lim_clock, granted, was_reset, lim_callers, lim_timeouts,
             wpc, wtimeout, welapsed, wbound, wret, lim_last>>
shVars == <<tpc, targ, tloc, tres>>
servedVars == <<served, served_from, served_after>>
overlapVars == <<upc, ucode, urecords, usess>>
auxVars == <<limVars, shVars, servedVars, overlapVars>>
vars == <<poolVars, fetchVars, storeVars, runVars, auxVars>>

\* ---------------------------------------------------------------- values

None == "None"
IndexError == "IndexError"
NoCall == "-"

\* No _upsert_quotes call yet.
NoUpsert == [stock_code |-> "-", records |-> <<>>, count |-> 0]

\* The proxy URLs of the model.
Proxies == {"p1", "p2", "p3"}

\* The longest proxy_list a ProxyManager of the model is built from.
MaxPool == 2

\* The largest max_retries argument of the model.
MaxRetries == 3

\* The trade dates of the model are 1..MaxDate.
MaxDate == 2

\* The longest record list (rows of a fetched frame) of the model.
MaxRecords == 2

\* The largest settings.data_fetch_batch_size of the model.
MaxBatch == 2

\* The most rows the daily_quotes table of the model holds.
MaxRows == 3

\* The longest stock_codes list given to manual_fetch_task in the model.
MaxOverride == 1

\* max(1, n)
max1(n) == IF n < 1 THEN 1 ELSE n

Range(s) == {s[i] : i \in DOMAIN s}

NoDup(s) == \A i, j \in DOMAIN s : s[i] = s[j] => i = j

\* Duplicate-free lists of proxies, the proxy_list a ProxyManager is built from.
ProxyLists == {s \in UNION {[1..n -> Proxies] : n \in 0..MaxPool} : NoDup(s)}

\* ------------------------------------------------------------ ProxyManager

\* list.remove(x): drops the first occurrence of x.
RECURSIVE ListRemove(_, _)
ListRemove(s, x) ==
    IF s = <<>> THEN <<>>
    ELSE IF Head(s) = x THEN Tail(s)
    ELSE <<Head(s)>> \o ListRemove(Tail(s), x)

\* A get_proxy without the test for an empty pool.
GetProxyResultUnguarded(ps, ci) ==
    IF ci >= Len(ps) THEN IndexError ELSE ps[ci + 1]

\* get_proxy's return value (or the IndexError self.proxies[self.current_index] raises).
GetProxyResult(ps, ci) ==
    IF ps = <<>> THEN None
    ELSE IF ci >= Len(ps) THEN IndexError
    ELSE ps[ci + 1]

\* self.current_index after get_proxy: advanced only when the read succeeded.
GetProxyIndex(ps, ci) ==
    IF ps = <<>> \/ ci >= Len(ps) THEN ci
    ELSE (ci + 1) % Len(ps)

\* An add_proxy that appends whatever it is given.
AddProxyListAlways(ps, failed, p) == Append(ps, p)

\* An add_proxy that does not look at failed_proxies.
AddProxyListUnchecked(ps, failed, p) ==
    IF p \notin Range(ps) THEN Append(ps, p) ELSE ps

\* self.proxies after add_proxy(p).
AddProxyList(ps, failed, p) ==
    IF p \notin Range(ps) /\ p \notin Range(failed) THEN Append(ps, p) ELSE ps

\* self.proxies after remove_proxy(p).
RemoveProxyList(ps, p) ==
    IF p \in Range(ps) THEN ListRemove(ps, p) ELSE ps

\* A remove_proxy that records the proxy whether it was in the pool or not.
RemoveProxyFailedAlways(ps, failed, p) == Append(failed, p)

\* self.failed_proxies after remove_proxy(p).
RemoveProxyFailed(ps, failed, p) ==
    IF p \in Range(ps) THEN Append(failed, p) ELSE failed

\* self.current_index after remove_proxy(p): the method never touches it.
RemoveProxyIndex(ps, ci, p) == ci

\* A shuffle that draws every place from the list anew.
Resamples(s) == [DOMAIN s -> Range(s)]

\* The orders random.shuffle can leave a list in.
Shuffles(s) ==
    {t \in [DOMAIN s -> Range(s)] : \A x \in Range(s) :
        Cardinality({i \in DOMAIN s : s[i] = x}) = Cardinality({i \in DOMAIN t : t[i] = x})}

PoolFresh ==
    /\ proxies \in ProxyLists
    /\ failed_proxies = <<>>
    /\ current_index = 0
    /\ get_result = NoCall

\* The threads of the model.
Callers == {1, 2}

\* Ticks in which one token is refilled: 1 / requests_per_second.
TicksPerToken == 2

\* The ticks the model lets pass.
MaxClock == 4

\* The largest finite timeout given to wait_if_needed in the model.
MaxTimeout == 1

\* timeout=None
NoTimeout == -1

\* No can_request() yet.
NoRequest == [by |-> 0, before |-> 0, gap |-> 0, result |-> FALSE, n |-> 0]

\* FrequencyController.__init__: tokens = 1.0, last_update = now.
LimFresh ==
    /\ tokens = TicksPerToken
    /\ since = 0
    /\ lim_clock = 0
    /\ granted = 0
    /\ was_reset = FALSE
    /\ wpc = [c \in Callers |-> "idle"]
    /\ wtimeout = [c \in Callers |-> NoTimeout]
    /\ welapsed = [c \in Callers |-> 0]
    /\ wbound = [c \in Callers |-> FALSE]
    /\ wret = [c \in Callers |-> NoCall]
    /\ lim_last = NoRequest

\* No thread calls the controller.
LimIdle == LimFresh /\ lim_callers = {} /\ lim_timeouts = {}

\* No thread is inside a ProxyManager method.
ShIdle ==
    /\ tpc = [t \in Callers |-> "idle"]
    /\ targ = [t \in Callers |-> NoCall]
    /\ tloc = [t \in Callers |-> NoCall]
    /\ tres = [t \in Callers |-> NoCall]

\* No get_proxy call has been made.
ServedNone ==
    /\ served = <<>>
    /\ served_from = 0
    /\ served_after = NoCall

\* A session nothing was loaded into.
NoSession == [dirty |-> <<>>, added |-> <<>>, count |-> 0]

\* No run is upserting.
OverlapNone ==
    /\ upc = [r \in Callers |-> "idle"]
    /\ ucode = [r \in Callers |-> NoCall]
    /\ urecords = [r \in Callers |-> <<>>]
    /\ usess = [r \in Callers |-> NoSession]

AuxIdle == LimIdle /\ ShIdle /\ ServedNone /\ OverlapNone

\* frequency_controller.wait_if_needed(): called with no timeout it never returns
\* False. It returns True once can_request() has granted a token, or raises
\* UnboundLocalError when the bucket fills between its two locked blocks.
WaitIfNeeded == {"granted", "raised"}

\* A controller whose wait_if_needed() can also return False.
GivesUp == {"granted", "raised", "timeout"}

FetchIdle ==
    /\ wait_answers = WaitIfNeeded
    /\ last_wait = NoCall
    /\ fpc = "idle"
    /\ max_retries = 0
    /\ retry_count = 0
    /\ script = <<>>
    /\ fetch_result = NoCall
    /\ remote_calls = <<>>
    /\ sleeps = <<>>
    /\ removed = <<>>
    /\ start_pool = <<>>

StoreEmpty ==
    /\ db_rows = {}
    /\ batch_size = 1
    /\ last_upsert = NoUpsert

\* The fetch_history row before the run has stored one.
NoRow == [status |-> "absent", completed_at |-> FALSE, stocks_processed |-> 0,
          records_inserted |-> 0, error_message |-> FALSE]

\* No task is running.
RunIdle ==
    /\ rpc = "idle"
    /\ fetch_type = NoCall
    /\ stock_codes = <<>>
    /\ cfg_max_retries = 0
    /\ stock_list = <<>>
    /\ idx = 0
    /\ stocks_processed = 0
    /\ records_inserted = 0
    /\ fh_db = NoRow
    /\ run_return = NoCall
    /\ raised_at = NoCall
    /\ body_error = NoCall
    /\ processed = <<>>
    /\ session_new = {}
    /\ leaked = {}

InitPool == PoolFresh /\ FetchIdle /\ StoreEmpty /\ RunIdle /\ AuxIdle

get_proxy ==
    /\ get_result' = GetProxyResult(proxies, current_index)
    /\ current_index' = GetProxyIndex(proxies, current_index)
    /\ UNCHANGED <<proxies, failed_proxies>>

add_proxy ==
    \E p \in Proxies :
        /\ proxies' = AddProxyList(proxies, failed_proxies, p)
        /\ UNCHANGED <<failed_proxies, current_index, get_result>>
    
remove_proxy ==
    \E p \in Proxies :
        /\ proxies' = RemoveProxyList(proxies, p)
        /\ failed_proxies' = RemoveProxyFailed(proxies, failed_proxies, p)
        /\ current_index' = RemoveProxyIndex(proxies, current_index, p)
        /\ UNCHANGED get_result
    
rotate_proxies ==
    /\ proxies # <<>>
    /\ proxies' \in Shuffles(proxies)
    /\ current_index' = 0
    /\ UNCHANGED <<failed_proxies, get_result>>

NextPool ==
    \/ get_proxy /\ UNCHANGED <<fetchVars, storeVars, runVars>> /\ UNCHANGED auxVars
    \/ add_proxy /\ UNCHANGED <<fetchVars, storeVars, runVars>> /\ UNCHANGED auxVars
    \/ remove_proxy /\ UNCHANGED <<fetchVars, storeVars, runVars>> /\ UNCHANGED auxVars
    \/ rotate_proxies /\ UNCHANGED <<fetchVars, storeVars, runVars>> /\ UNCHANGED auxVars

SpecPool == InitPool /\ [][NextPool]_vars

\* ---- the same ProxyManager, with the answers of its get_proxy calls kept

\* The most get_proxy calls in a row the model keeps.
MaxServed == 4

\* get_proxy, called again with nothing else called in between.
GetServed ==
    /\ Len(served) < MaxServed
    /\ get_proxy
    /\ served' = Append(served, get_result')
    /\ UNCHANGED <<served_from, served_after>>

\* Another method was called: the next get_proxy starts a new row of calls.
ServedAnew ==
    /\ served' = <<>>
    /\ served_from' = current_index'

\* The method that was called.
ServedAfter(method) == served_after' = method

notServedVars == <<fetchVars, storeVars, runVars, limVars, shVars, overlapVars>>

NextPoolServed ==
    \/ GetServed /\ UNCHANGED notServedVars
    \/ add_proxy /\ ServedAnew /\ ServedAfter("add_proxy") /\ UNCHANGED notServedVars
    \/ remove_proxy /\ ServedAnew /\ ServedAfter("remove_proxy") /\ UNCHANGED notServedVars
    \/ rotate_proxies /\ ServedAnew /\ ServedAfter("rotate_proxies") /\ UNCHANGED notServedVars

SpecPoolServed == InitPool /\ [][NextPoolServed]_vars

\* ---------------------------------------------------------------- DataFetcher

\* What one call of the remote source (ak.stock_zh_a_hist) can do: return rows,
\* return an empty frame, or raise. An error is a timeout or not, and its text
\* holds the word "timeout" or not:
\*   timeout          a timeout whose text holds the word ("... (read timeout=15)")
\*   timed_out        a timeout whose text does not ("... Read timed out.")
\*   error            another error, the word absent
\*   mentions_timeout another error whose text holds the word
Outcomes == {"data", "empty", "timeout", "timed_out", "error", "mentions_timeout"}

\* The outcomes that raise.
Errors == {"timeout", "timed_out", "error", "mentions_timeout"}

\* The errors that are timeouts.
TimeoutClass == {"timeout", "timed_out"}

\* "timeout" in str(e).lower()
TextHasTimeout(e) == e \in {"timeout", "mentions_timeout"}

\* A try block that raises on an empty frame instead of returning None.
ReturnedNoEmpty(outcome) == IF outcome = "data" THEN "Series" ELSE NoCall

\* What the try block does with the source's answer: return df, return None,
\* or nothing when the call raised.
Returned(outcome) ==
    IF outcome = "data" THEN "Series"
    ELSE IF outcome = "empty" THEN "EmptyResult"
    ELSE NoCall

\* random.uniform(0, 1), in seconds: its two ends.
Jitters == {0, 1}

RECURSIVE Pow2(_)
Pow2(n) == IF n = 0 THEN 1 ELSE 2 * Pow2(n - 1)

\* The egress of the remote call: ak.stock_zh_a_hist is given no proxies argument,
\* so the request leaves directly whatever get_proxy returned.
Egress(proxy_dict) == None

\* Whether the except block evicts the proxy of this attempt.
EvictsProxy(proxy_dict, outcome) == proxy_dict # None /\ TextHasTimeout(outcome)

\* An except block that sleeps after the last attempt too.
SleepsAlways(rc, mr) == TRUE

\* Whether the except block sleeps before the next attempt.
SleepsBeforeRetry(rc, mr) == rc < mr - 1

\* The jitter-free part of wait_time.
BackoffBase(rc) == Pow2(rc)

\* What the source's k-th call can do: what the script says, anything past its end.
SourceAnswers(sc, k) == IF k <= Len(sc) THEN {sc[k]} ELSE Outcomes

\* The script with the k-th answer on record.
Answered(sc, k, outcome) == IF k <= Len(sc) THEN sc ELSE Append(sc, outcome)

\* A wait_if_needed() that lets the whole call go on as if it had granted.
AbortsNever(wait) == FALSE

\* if not self.frequency_controller.wait_if_needed(): break
Aborts(wait) == wait = "timeout"

\* The call starts: retry_count = 0, last_error = None.
FetchStart(mr, sc) ==
    /\ fpc' = "attempt"
    /\ max_retries' = mr
    /\ retry_count' = 0
    /\ script' = sc
    /\ fetch_result' = NoCall
    /\ remote_calls' = <<>>
    /\ sleeps' = <<>>
    /\ removed' = <<>>
    /\ start_pool' = proxies
    /\ last_wait' = NoCall
    /\ UNCHANGED wait_answers

\* return df / return None
FetchReturn(result) ==
    /\ fpc' = "returned"
    /\ fetch_result' = result
    /\ UNCHANGED <<max_retries, retry_count, sleeps, removed, start_pool, wait_answers>>

\* The except block: evict on a timeout through a proxy, sleep unless this was the
\* last attempt, retry_count += 1.
FetchExcept(proxy_dict, outcome) ==
    /\ IF EvictsProxy(proxy_dict, outcome)
       THEN /\ proxies' = RemoveProxyList(proxies, proxy_dict)
            /\ failed_proxies' = RemoveProxyFailed(proxies, failed_proxies, proxy_dict)
            /\ removed' = Append(removed, proxy_dict)
       ELSE UNCHANGED <<proxies, failed_proxies, removed>>
    /\ IF SleepsBeforeRetry(retry_count, max_retries)
       THEN \E j \in Jitters :
                sleeps' = Append(sleeps, [base |-> BackoffBase(retry_count), jitter |-> j])
       ELSE UNCHANGED sleeps
    /\ retry_count' = retry_count + 1
    /\ UNCHANGED <<fpc, max_retries, fetch_result, start_pool, wait_answers>>

\* One pass of the while body: wait_if_needed, get_proxy, the remote call, and
\* either a return or the except block.
FetchAttempt ==
    /\ fpc = "attempt"
    /\ retry_count < max_retries
    /\ \E wait \in wait_answers :
        /\ last_wait' = wait
        /\ IF Aborts(wait)
           THEN /\ FetchReturn("RateLimited")
                /\ UNCHANGED <<poolVars, remote_calls, script>>
           ELSE IF wait = "raised"
           THEN \* proxy_dict is assigned after the wait: in the first pass the except
                \* block's test of it raises and the call ends with that exception;
                \* later it holds the pass before's value and the error's text has
                \* no "timeout", so nothing is evicted.
                IF retry_count = 0
                THEN /\ FetchReturn("Raised")
                     /\ UNCHANGED <<poolVars, remote_calls, script>>
                ELSE /\ FetchExcept(None, "UnboundLocalError")
                     /\ UNCHANGED <<current_index, get_result, remote_calls, script>>
           ELSE LET got == GetProxyResult(proxies, current_index) IN
                /\ get_result' = got
                /\ current_index' = GetProxyIndex(proxies, current_index)
                /\ IF got = IndexError
                   THEN /\ FetchExcept(None, IndexError)
                        /\ UNCHANGED <<remote_calls, script>>
                   ELSE \E outcome \in SourceAnswers(script, Len(remote_calls) + 1) :
                        /\ script' = Answered(script, Len(remote_calls) + 1, outcome)
                        /\ remote_calls' = Append(remote_calls,
                               [proxy_dict |-> got, egress |-> Egress(got), outcome |-> outcome])
                        /\ IF Returned(outcome) # NoCall
                           THEN /\ FetchReturn(Returned(outcome))
                                /\ UNCHANGED <<proxies, failed_proxies>>
                           ELSE FetchExcept(got, outcome)

\* The while test fails: log and return None.
FetchExhausted ==
    /\ fpc = "attempt"
    /\ retry_count >= max_retries
    /\ FetchReturn("Failure")
    /\ UNCHANGED <<poolVars, remote_calls, script, last_wait>>

\* A pool some earlier calls have used: the cursor anywhere in the list.
PoolUsed ==
    /\ proxies \in ProxyLists
    /\ failed_proxies = <<>>
    /\ current_index \in IF proxies = <<>> THEN {0} ELSE 0..(Len(proxies) - 1)
    /\ get_result = NoCall

FetchCall ==
    /\ PoolUsed
    /\ fpc = "attempt"
    /\ max_retries \in 1..MaxRetries
    /\ retry_count = 0
    /\ script \in [1..max_retries -> Outcomes]
    /\ fetch_result = NoCall
    /\ remote_calls = <<>>
    /\ sleeps = <<>>
    /\ removed = <<>>
    /\ start_pool = proxies
    /\ last_wait = NoCall
    /\ StoreEmpty
    /\ RunIdle
    /\ AuxIdle

\* One call on a DataFetcher built with a FrequencyController.
InitFetch == FetchCall /\ wait_answers = WaitIfNeeded

\* One call on a DataFetcher whose controller can give up waiting.
InitFetchGivesUp == FetchCall /\ wait_answers = GivesUp

NextFetch ==
    \/ FetchAttempt /\ UNCHANGED <<storeVars, runVars>> /\ UNCHANGED auxVars
    \/ FetchExhausted /\ UNCHANGED <<storeVars, runVars>> /\ UNCHANGED auxVars

SpecFetch == InitFetch /\ [][NextFetch]_vars

SpecFetchGivesUp == InitFetchGivesUp /\ [][NextFetch]_vars

\* -------------------------------------------------------------- _upsert_quotes

\* Stock codes and trade dates of the model.
Codes == {"A", "B"}
Dates == 1..MaxDate

\* The price bars a fetched row can carry: every field of bar v is v, so that two
\* bars differ in every field.
BarValues == {1, 2}

\* One element of the records list _upsert_quotes builds from a frame row.
Item(d, v) ==
    [date |-> d, open_price |-> v, high_price |-> v, low_price |-> v,
     close_price |-> v, volume |-> v, amount |-> v, adjust_factor |-> 1]

Items == {Item(d, v) : d \in Dates, v \in BarValues}

\* The record lists of a non-empty frame.
RecordLists == UNION {[1..n -> Items] : n \in 1..MaxRecords}

\* existing.open_price = item["open_price"] ... existing.adjust_factor = item["adjust_factor"]
OverwriteRow(existing, item) ==
    [existing EXCEPT !.open_price = item.open_price,
                     !.high_price = item.high_price,
                     !.low_price = item.low_price,
                     !.close_price = item.close_price,
                     !.volume = item.volume,
                     !.amount = item.amount,
                     !.adjust_factor = item.adjust_factor]

\* DailyQuote(stock_code=..., date=..., ...): the id is given at the flush.
NewRow(id, code, item) ==
    [id |-> id, stock_code |-> code, date |-> item.date,
     open_price |-> item.open_price, high_price |-> item.high_price,
     low_price |-> item.low_price, close_price |-> item.close_price,
     volume |-> item.volume, amount |-> item.amount,
     adjust_factor |-> item.adjust_factor]

\* The ids of the committed rows the chunk's query returns for one date. The session
\* does not autoflush, so rows added earlier in the call are not among them.
ExistingIds(rows, code, d) == {r.id : r \in {q \in rows : q.stock_code = code /\ q.date = d}}

\* The existing_map a chunk's query can produce: for each date the row the dict
\* comprehension keeps (the last one the unordered query returned), 0 for none.
ExistingMaps(rows, code) ==
    {m \in [Dates -> {0} \cup {r.id : r \in rows}] :
        \A d \in Dates : IF ExistingIds(rows, code, d) = {}
                         THEN m[d] = 0
                         ELSE m[d] \in ExistingIds(rows, code, d)}

\* The session after one item of a chunk: an update in place of the mapped row, or
\* db.add of a new one; inserted_or_updated += 1 in both branches.
UpsertItem(sess, item, existing_map) ==
    IF existing_map[item.date] # 0
    THEN [sess EXCEPT !.dirty = [id \in DOMAIN sess.dirty |->
                                    IF id = existing_map[item.date]
                                    THEN OverwriteRow(sess.dirty[id], item)
                                    ELSE sess.dirty[id]],
                      !.count = sess.count + 1]
    ELSE [sess EXCEPT !.added = Append(sess.added, item),
                      !.count = sess.count + 1]

\* for item in chunk
RECURSIVE UpsertChunk(_, _, _)
UpsertChunk(sess, chunk, existing_map) ==
    IF chunk = <<>> THEN sess
    ELSE UpsertChunk(UpsertItem(sess, Head(chunk), existing_map), Tail(chunk), existing_map)

\* records[i:i + batch_size], i counted from 0 as in the source.
Chunk(records, i, bs) ==
    SubSeq(records, i + 1, IF i + bs < Len(records) THEN i + bs ELSE Len(records))

\* The number of chunks of range(0, len(records), batch_size).
NumChunks(n, bs) == (n + bs - 1) \div bs

\* for i in range(0, len(records), batch_size): maps[k] is the existing_map of chunk k.
RECURSIVE UpsertLoop(_, _, _, _, _)
UpsertLoop(sess, records, bs, k, maps) ==
    IF (k - 1) * bs >= Len(records) THEN sess
    ELSE UpsertLoop(UpsertChunk(sess, Chunk(records, (k - 1) * bs, bs), maps[k]),
                    records, bs, k + 1, maps)

\* The session when the call starts: the committed rows as loaded, nothing added.
SessionOf(rows) ==
    [dirty |-> [id \in {r.id : r \in rows} |-> CHOOSE r \in rows : r.id = id],
     added |-> <<>>,
     count |-> 0]

\* _upsert_quotes(db, stock_code, df): the session it leaves, for one choice of the
\* chunks' existing_maps.
UpsertQuotes(rows, code, records, bs, maps) ==
    UpsertLoop(SessionOf(rows), records, max1(bs), 1, maps)

\* db.commit(): the updates and the inserts reach the table, new ids follow the old.
CommitRows(rows, code, sess) ==
    {sess.dirty[id] : id \in DOMAIN sess.dirty}
        \cup {NewRow(Cardinality(rows) + i, code, sess.added[i]) : i \in DOMAIN sess.added}

\* records_inserted += _upsert_quotes(db, stock_code, df); db.commit()
UpsertAndCommit(code, records) ==
    \E maps \in [1..NumChunks(Len(records), max1(batch_size)) -> ExistingMaps(db_rows, code)] :
        LET sess == UpsertQuotes(db_rows, code, records, batch_size, maps) IN
        /\ Cardinality(db_rows) + Len(sess.added) <= MaxRows
        /\ db_rows' = CommitRows(db_rows, code, sess)
        /\ last_upsert' = [stock_code |-> code, records |-> records, count |-> sess.count]
        /\ UNCHANGED batch_size

InitStore ==
    /\ PoolFresh /\ proxies = <<>>
    /\ FetchIdle
    /\ db_rows = {}
    /\ batch_size \in 1..MaxBatch
    /\ last_upsert = NoUpsert
    /\ RunIdle
    /\ AuxIdle

upsert_quotes ==
    \E code \in Codes, records \in RecordLists : UpsertAndCommit(code, records)

NextStore ==
    \/ upsert_quotes /\ UNCHANGED <<poolVars, fetchVars, runVars>> /\ UNCHANGED auxVars

SpecStore == InitStore /\ [][NextStore]_vars

\* ------------------------------------------- fetch_daily_data_task / manual_fetch_task

\* The stocks table: A and B are ordinary, S is special-treatment (is_st).
StockTable ==
    {[stock_code |-> "A", is_st |-> FALSE],
     [stock_code |-> "B", is_st |-> FALSE],
     [stock_code |-> "S", is_st |-> TRUE]}

\* manual_fetch_task's stock_codes: None, or a list of codes.
NoCodes == [given |-> FALSE, codes |-> <<>>]
Overrides ==
    {NoCodes} \cup
    {[given |-> TRUE, codes |-> c] :
        c \in UNION {[1..n -> {r.stock_code : r \in StockTable}] : n \in 0..MaxOverride}}

\* if stock_codes: a non-empty list
Truthy(sc) == sc.given /\ sc.codes # <<>>

\* The rows the universe query selects.
Universe(ft, sc) ==
    IF ft = "manual" /\ Truthy(sc)
    THEN {r.stock_code : r \in {q \in StockTable : q.stock_code \in Range(sc.codes)}}
    ELSE {r.stock_code : r \in {q \in StockTable : q.is_st = FALSE}}

\* The orders .all() can return the selected rows in.
Orderings(S) == {s \in [1..Cardinality(S) -> S] : NoDup(s)}

\* FetchHistory(status="running", stocks_processed=0, records_inserted=0), committed.
RunningRow == [NoRow EXCEPT !.status = "running"]

\* The row after the success block's commit.
SuccessRow(row, sp, ri) ==
    [row EXCEPT !.status = "success", !.completed_at = TRUE,
                !.stocks_processed = sp, !.records_inserted = ri]

\* The row after the outer except's commit. A row whose first commit failed was
\* dropped from the session by the rollback, and the commit stores nothing.
FailedRow(row) ==
    IF row.status = "absent" THEN row
    ELSE [row EXCEPT !.status = "failed", !.completed_at = TRUE, !.error_message = TRUE]

\* A rollback that leaves the session's uncommitted writes in it.
RollbackKeeps(pending) == pending

\* db.rollback(): the session's uncommitted writes are discarded.
Rollback(pending) == {}

\* db.commit(): whatever the session holds is stored.
Commit(pending) ==
    /\ leaked' = leaked \cup pending
    /\ session_new' = {}

\* The task ending with the exception leaving it.
ExceptRaise == "raised"

\* What the task does once the outer except has recorded the failure:
\* return {"status": "failed", "error": str(e)}
ExceptReturn == "failed"

\* An instrument counted only when its fetch gave a frame.
CountedFrame(result) == IF result = "Series" THEN 1 ELSE 0

\* stocks_processed += 1 stands after the if-block: every fetch result counts.
Counted(result) == 1

\* if df is not None and not df.empty
HasFrame(result) == result = "Series"

\* What the loop notes of one instrument.
Entry(code, error, counted, count) ==
    [code |-> code, fetch |-> fetch_result,
     error |-> error, counted |-> counted, count |-> count]

\* The fetcher has returned to the task.
FetchDone ==
    /\ fpc' = "idle"
    /\ max_retries' = 0
    /\ retry_count' = 0
    /\ script' = <<>>
    /\ fetch_result' = NoCall
    /\ remote_calls' = <<>>
    /\ sleeps' = <<>>
    /\ removed' = <<>>
    /\ start_pool' = <<>>
    /\ last_wait' = NoCall
    /\ UNCHANGED wait_answers

InitRun ==
    /\ PoolFresh /\ proxies = <<>>
    /\ FetchIdle
    /\ db_rows = {}
    /\ batch_size \in 1..MaxBatch
    /\ last_upsert = NoUpsert
    /\ rpc = "created"
    /\ \/ fetch_type = "scheduled" /\ stock_codes = NoCodes
       \/ fetch_type = "manual" /\ stock_codes \in Overrides
    /\ cfg_max_retries \in 1..MaxRetries
    /\ stock_list = <<>>
    /\ idx = 0
    /\ stocks_processed = 0
    /\ records_inserted = 0
    /\ fh_db = NoRow
    /\ run_return = NoCall
    /\ raised_at = NoCall
    /\ body_error = NoCall
    /\ processed = <<>>
    /\ session_new = {}
    /\ leaked = {}
    /\ AuxIdle

\* db.add(fetch_history); db.commit(), and the three controllers built after it.
CreateHistory ==
    /\ rpc = "created"
    /\ UNCHANGED <<session_new, leaked>>
    /\ \E ok \in BOOLEAN :
        IF ok
        THEN fh_db' = RunningRow /\ rpc' = "resolve" /\ UNCHANGED raised_at
        ELSE rpc' = "except" /\ raised_at' = "create" /\ UNCHANGED fh_db
    /\ UNCHANGED <<fetch_type, stock_codes, cfg_max_retries, stock_list, idx,
                   stocks_processed, records_inserted, run_return, body_error, processed>>
    /\ UNCHANGED <<poolVars, fetchVars, storeVars>>

\* stock_list = db.query(Stock).filter(...).all()
ResolveUniverse ==
    /\ rpc = "resolve"
    /\ UNCHANGED <<session_new, leaked>>
    /\ \E ok \in BOOLEAN :
        IF ok
        THEN /\ stock_list' \in Orderings(Universe(fetch_type, stock_codes))
             /\ rpc' = "loop"
             /\ UNCHANGED raised_at
        ELSE rpc' = "except" /\ raised_at' = "resolve" /\ UNCHANGED stock_list
    /\ UNCHANGED <<fetch_type, stock_codes, cfg_max_retries, idx, stocks_processed,
                   records_inserted, fh_db, run_return, body_error, processed>>
    /\ UNCHANGED <<poolVars, fetchVars, storeVars>>

\* for stock in stock_list: the call of data_fetcher.fetch_daily_quotes starts.
LoopNext ==
    /\ rpc = "loop"
    /\ UNCHANGED <<session_new, leaked>>
    /\ idx < Len(stock_list)
    /\ idx' = idx + 1
    /\ rpc' = "fetching"
    /\ FetchStart(cfg_max_retries, <<>>)
    /\ UNCHANGED <<fetch_type, stock_codes, cfg_max_retries, stock_list, stocks_processed,
                   records_inserted, fh_db, run_return, raised_at, body_error, processed>>
    /\ UNCHANGED <<poolVars, storeVars>>

\* The fetch raised: the loop's except takes it, nothing is counted.
FetchRaised ==
    /\ rpc = "fetching" /\ fpc = "returned"
    /\ UNCHANGED <<session_new, leaked>>
    /\ fetch_result = "Raised"
    /\ body_error' = "fetch"
    /\ processed' = Append(processed, Entry(stock_list[idx], "fetch", FALSE, 0))
    /\ rpc' = "handler"
    /\ FetchDone
    /\ UNCHANGED <<fetch_type, stock_codes, cfg_max_retries, stock_list, idx, stocks_processed,
                   records_inserted, fh_db, run_return, raised_at>>
    /\ UNCHANGED <<poolVars, storeVars>>

\* The fetch returned None (empty, exhausted or rate limited): stocks_processed += 1.
ProcessFetched ==
    /\ rpc = "fetching" /\ fpc = "returned"
    /\ UNCHANGED <<session_new, leaked>>
    /\ fetch_result # "Raised"
    /\ ~HasFrame(fetch_result)
    /\ stocks_processed' = stocks_processed + Counted(fetch_result)
    /\ processed' = Append(processed, Entry(stock_list[idx], NoCall, TRUE, 0))
    /\ rpc' = "loop"
    /\ FetchDone
    /\ UNCHANGED <<fetch_type, stock_codes, cfg_max_retries, stock_list, idx,
                   records_inserted, fh_db, run_return, raised_at, body_error>>
    /\ UNCHANGED <<poolVars, storeVars>>

\* The fetch returned a frame: _upsert_quotes, db.commit(), stocks_processed += 1.
PersistSeries ==
    /\ rpc = "fetching" /\ fpc = "returned"
    /\ HasFrame(fetch_result)
    /\ \E records \in RecordLists :
        /\ UpsertAndCommit(stock_list[idx], records)
        /\ records_inserted' = records_inserted + Len(records)
        /\ processed' = Append(processed, Entry(stock_list[idx], NoCall, TRUE, Len(records)))
    /\ Commit(session_new)
    /\ stocks_processed' = stocks_processed + 1
    /\ rpc' = "loop"
    /\ FetchDone
    /\ UNCHANGED <<fetch_type, stock_codes, cfg_max_retries, stock_list, idx,
                   fh_db, run_return, raised_at, body_error>>
    /\ UNCHANGED poolVars

\* The fetch returned a frame and the try body raises: _upsert_quotes on a frame it
\* cannot convert (nothing counted), or db.commit() after records_inserted took
\* the call's count. The session is left with what the instrument wrote to it.
PersistFails ==
    /\ rpc = "fetching" /\ fpc = "returned"
    /\ HasFrame(fetch_result)
    /\ \/ /\ body_error' = "data"
          /\ UNCHANGED records_inserted
       \/ /\ body_error' = "store"
          /\ \E records \in RecordLists :
                records_inserted' = records_inserted + Len(records)
    /\ processed' = Append(processed, Entry(stock_list[idx], body_error', FALSE, 0))
    /\ session_new' = session_new \cup {stock_list[idx]}
    /\ UNCHANGED leaked
    /\ rpc' = "handler"
    /\ FetchDone
    /\ UNCHANGED <<fetch_type, stock_codes, cfg_max_retries, stock_list, idx,
                   stocks_processed, fh_db, run_return, raised_at>>
    /\ UNCHANGED <<poolVars, storeVars>>

\* except Exception as e: logger.error(f"... {stock.stock_code}: {e}"); db.rollback().
\* After a failed flush the session is inactive and its objects are expired until
\* rollback() is called, so reading stock.stock_code for the log line, one
\* statement before the rollback, raises; so does a rollback the store refuses.
InstrumentHandler ==
    /\ rpc = "handler"
    /\ \/ /\ rpc' = "loop"
          /\ session_new' = Rollback(session_new)
          /\ UNCHANGED raised_at
       \/ /\ body_error = "store"
          /\ rpc' = "except" /\ raised_at' = "handler"
          /\ UNCHANGED session_new
    /\ UNCHANGED leaked
    /\ body_error' = NoCall
    /\ UNCHANGED <<fetch_type, stock_codes, cfg_max_retries, stock_list, idx,
                   stocks_processed, records_inserted, fh_db, run_return, processed>>
    /\ UNCHANGED <<poolVars, fetchVars, storeVars>>

\* fetch_history.status = "success" ... db.commit()
Finalize ==
    /\ rpc = "loop"
    /\ idx = Len(stock_list)
    /\ \E ok \in BOOLEAN :
        IF ok
        THEN /\ fh_db' = SuccessRow(fh_db, stocks_processed, records_inserted)
             /\ Commit(session_new)
             /\ rpc' = "finalized"
             /\ UNCHANGED raised_at
        ELSE /\ rpc' = "except" /\ raised_at' = "finalize"
             /\ UNCHANGED <<fh_db, session_new, leaked>>
    /\ UNCHANGED <<fetch_type, stock_codes, cfg_max_retries, stock_list, idx, stocks_processed,
                   records_inserted, run_return, body_error, processed>>
    /\ UNCHANGED <<poolVars, fetchVars, storeVars>>

\* The statements after the success block's commit raising into the outer except.
FinalizeRaises ==
    /\ rpc' = "except"
    /\ raised_at' = "return"
    /\ UNCHANGED run_return

\* The statements after the success block's commit: the log line, the two metrics
\* (label counts match their declarations) and the return; none of them raises.
FinalizeReturns ==
    /\ rpc' = "done"
    /\ run_return' = "success"
    /\ UNCHANGED raised_at

\* The success block after its commit.
FinalizeCommitted ==
    /\ rpc = "finalized"
    /\ UNCHANGED <<session_new, leaked>>
    /\ FinalizeReturns
    /\ UNCHANGED <<fetch_type, stock_codes, cfg_max_retries, stock_list, idx, stocks_processed,
                   records_inserted, fh_db, body_error, processed>>
    /\ UNCHANGED <<poolVars, fetchVars, storeVars>>

\* except Exception as e: db.rollback(); fetch_history.status = "failed" ...
\* db.commit(). When that commit raises, the exception leaves the task and the
\* row stays as it was.
RunExcept ==
    /\ rpc = "except"
    /\ \E ok \in BOOLEAN :
        IF ok
        THEN /\ fh_db' = FailedRow(fh_db) /\ rpc' = "recorded"
             /\ Commit(Rollback(session_new))
             /\ UNCHANGED run_return
        ELSE /\ run_return' = ExceptRaise /\ rpc' = "done"
             /\ session_new' = Rollback(session_new)
             /\ UNCHANGED <<fh_db, leaked>>
    /\ UNCHANGED <<fetch_type, stock_codes, cfg_max_retries, stock_list, idx,
                   stocks_processed, records_inserted, raised_at, body_error, processed>>
    /\ UNCHANGED <<poolVars, fetchVars, storeVars>>

\* The outer except after its commit: the two metrics and the return.
ExceptReturns ==
    /\ rpc = "recorded"
    /\ UNCHANGED <<session_new, leaked>>
    /\ run_return' = ExceptReturn
    /\ rpc' = "done"
    /\ UNCHANGED <<fetch_type, stock_codes, cfg_max_retries, stock_list, idx, stocks_processed,
                   records_inserted, fh_db, raised_at, body_error, processed>>
    /\ UNCHANGED <<poolVars, fetchVars, storeVars>>

NextRun ==
    \/ CreateHistory /\ UNCHANGED auxVars
    \/ ResolveUniverse /\ UNCHANGED auxVars
    \/ LoopNext /\ UNCHANGED auxVars
    \/ FetchAttempt /\ UNCHANGED <<storeVars, runVars>> /\ UNCHANGED auxVars
    \/ FetchExhausted /\ UNCHANGED <<storeVars, runVars>> /\ UNCHANGED auxVars
    \/ FetchRaised /\ UNCHANGED auxVars
    \/ ProcessFetched /\ UNCHANGED auxVars
    \/ PersistSeries /\ UNCHANGED auxVars
    \/ PersistFails /\ UNCHANGED auxVars
    \/ InstrumentHandler /\ UNCHANGED auxVars
    \/ Finalize /\ UNCHANGED auxVars
    \/ FinalizeCommitted /\ UNCHANGED auxVars
    \/ RunExcept /\ UNCHANGED auxVars
    \/ ExceptReturns /\ UNCHANGED auxVars

SpecRun == InitRun /\ [][NextRun]_vars

\* The task is a sequential function running in a worker that is not killed:
\* whenever it has a next statement, it executes one.
SpecRunLive == InitRun /\ [][NextRun]_vars /\ WF_vars(NextRun)

\* -------------------------------------------------------- FrequencyController

Min(a, b) == IF a <= b THEN a ELSE b

\* The timeout arguments of the model: None, 0 and the positive ones.
Timeouts == {NoTimeout} \cup (0..MaxTimeout)

\* if timeout and ...: None and 0 both count as no timeout.
TimeoutSet(t) == t # NoTimeout /\ t # 0

\* A refill that is not capped.
RefillUncapped(t, e) == t + e

\* _update_tokens: self.tokens = min(self.tokens + added_tokens, 1.0)
Refill(t, e) == Min(t + e, TicksPerToken)

\* A bucket that grants whatever it holds.
GrantableAlways(t) == TRUE

\* if self.tokens >= 1.0
Grantable(t) == t >= TicksPerToken

\* A grant that takes nothing out of the bucket.
ConsumeNothing(t) == t

\* self.tokens -= 1.0
Consume(t) == t - TicksPerToken

\* can_request(), the whole locked block, called by c.
CanRequest(c) ==
    LET t == Refill(tokens, since)
        ok == Grantable(t)
    IN /\ tokens' = IF ok THEN Consume(t) ELSE t
       /\ since' = 0
       /\ granted' = IF ok /\ ~was_reset THEN granted + 1 ELSE granted
       /\ lim_last' = [by |-> c, before |-> tokens, gap |-> since, result |-> ok,
                       n |-> 1 - lim_last.n]

\* A thread calls can_request() directly.
can_request(c) ==
    /\ wpc[c] = "idle"
    /\ CanRequest(c)
    /\ wret' = [wret EXCEPT ![c] = IF lim_last'.result THEN "True" ELSE "False"]
    /\ UNCHANGED <<lim_clock, was_reset, lim_callers, lim_timeouts, wpc, wtimeout, welapsed, wbound>>

\* wait_if_needed(timeout) is entered: start_time = time.time().
WaitStart(c, t) ==
    /\ wpc[c] = "idle"
    /\ wpc' = [wpc EXCEPT ![c] = "try"]
    /\ wtimeout' = [wtimeout EXCEPT ![c] = t]
    /\ welapsed' = [welapsed EXCEPT ![c] = 0]
    /\ wbound' = [wbound EXCEPT ![c] = FALSE]
    /\ wret' = [wret EXCEPT ![c] = NoCall]
    /\ UNCHANGED <<tokens, since, lim_clock, granted, was_reset, lim_callers, lim_timeouts, lim_last>>

\* if self.can_request(): return True
WaitTry(c) ==
    /\ wpc[c] = "try"
    /\ CanRequest(c)
    /\ IF lim_last'.result
       THEN /\ wpc' = [wpc EXCEPT ![c] = "idle"]
            /\ wret' = [wret EXCEPT ![c] = "True"]
       ELSE /\ wpc' = [wpc EXCEPT ![c] = "calc"]
            /\ UNCHANGED wret
    /\ UNCHANGED <<lim_clock, was_reset, lim_callers, lim_timeouts, wtimeout, welapsed, wbound>>

\* with self.lock: self._update_tokens(); if self.tokens < 1.0: wait_seconds = ...
WaitCalc(c) ==
    /\ wpc[c] = "calc"
    /\ tokens' = Refill(tokens, since)
    /\ since' = 0
    /\ wbound' = [wbound EXCEPT ![c] = wbound[c] \/ tokens' < TicksPerToken]
    /\ wpc' = [wpc EXCEPT ![c] = "check"]
    /\ UNCHANGED <<lim_clock, granted, was_reset, lim_callers, lim_timeouts, wtimeout, welapsed, wret, lim_last>>

\* The timeout test, then wait_seconds = max(0.1, min(wait_seconds, 1.0)), which
\* raises UnboundLocalError when wait_seconds was never assigned.
WaitCheck(c) ==
    /\ wpc[c] = "check"
    /\ IF TimeoutSet(wtimeout[c]) /\ welapsed[c] > wtimeout[c]
       THEN /\ wpc' = [wpc EXCEPT ![c] = "idle"]
            /\ wret' = [wret EXCEPT ![c] = "False"]
       ELSE IF ~wbound[c]
       THEN /\ wpc' = [wpc EXCEPT ![c] = "idle"]
            /\ wret' = [wret EXCEPT ![c] = "UnboundLocalError"]
       ELSE /\ wpc' = [wpc EXCEPT ![c] = "sleep"]
            /\ UNCHANGED wret
    /\ UNCHANGED <<tokens, since, lim_clock, granted, was_reset, lim_callers, lim_timeouts,
                   wtimeout, welapsed, wbound, lim_last>>

\* time.sleep(wait_seconds) is over.
WaitWake(c) ==
    /\ wpc[c] = "sleep"
    /\ wpc' = [wpc EXCEPT ![c] = "try"]
    /\ UNCHANGED <<tokens, since, lim_clock, granted, was_reset, lim_callers, lim_timeouts,
                   wtimeout, welapsed, wbound, wret, lim_last>>

\* reset(): tokens = 1.0, last_update = now.
reset(c) ==
    /\ wpc[c] = "idle"
    /\ tokens' = TicksPerToken
    /\ since' = 0
    /\ was_reset' = TRUE
    /\ UNCHANGED <<lim_clock, granted, lim_callers, lim_timeouts, wpc, wtimeout, welapsed, wbound, wret, lim_last>>

\* One tick of time passes. time.time() - start_time is read only by the timeout
\* test of a call that was given a timeout.
Tick ==
    /\ lim_clock < MaxClock
    /\ lim_clock' = lim_clock + 1
    /\ since' = since + 1
    /\ welapsed' = [c \in Callers |->
                        IF wpc[c] # "idle" /\ wtimeout[c] # NoTimeout
                        THEN welapsed[c] + 1 ELSE welapsed[c]]
    /\ UNCHANGED <<tokens, granted, was_reset, lim_callers, lim_timeouts, wpc, wtimeout, wbound, wret, lim_last>>

notLimVars == <<poolVars, fetchVars, storeVars, runVars, shVars, servedVars, overlapVars>>

\* Nothing but the controller is in use.
LimAlone ==
    /\ PoolFresh /\ proxies = <<>>
    /\ FetchIdle
    /\ StoreEmpty
    /\ RunIdle

\* One thread and a controller just built.
InitLimiter == LimAlone /\ ShIdle /\ ServedNone /\ OverlapNone /\ LimFresh /\ lim_callers = {1} /\ lim_timeouts = Timeouts

\* Two threads sharing a controller just built, waiting without a timeout.
InitLimiterShared == LimAlone /\ ShIdle /\ ServedNone /\ OverlapNone /\ LimFresh /\ lim_callers = Callers /\ lim_timeouts = {NoTimeout}

NextLimiter ==
    \/ \E c \in lim_callers : can_request(c) /\ UNCHANGED notLimVars
    \/ \E c \in lim_callers : \E t \in lim_timeouts : WaitStart(c, t) /\ UNCHANGED notLimVars
    \/ \E c \in lim_callers : WaitTry(c) /\ UNCHANGED notLimVars
    \/ \E c \in lim_callers : WaitCalc(c) /\ UNCHANGED notLimVars
    \/ \E c \in lim_callers : WaitCheck(c) /\ UNCHANGED notLimVars
    \/ \E c \in lim_callers : WaitWake(c) /\ UNCHANGED notLimVars
    \/ \E c \in lim_callers : reset(c) /\ UNCHANGED notLimVars
    \/ Tick /\ UNCHANGED notLimVars

SpecLimiter == InitLimiter /\ [][NextLimiter]_vars

SpecLimiterShared == InitLimiterShared /\ [][NextLimiter]_vars

\* ------------------------------------------ one ProxyManager shared by two runs
\* ProxyManager holds no lock: a thread can be switched out between any two
\* statements of a method, and between the test and the body of an if.

\* The call of thread t returns or raises.
Ends(t, result) ==
    /\ tpc' = [tpc EXCEPT ![t] = "idle"]
    /\ tres' = [tres EXCEPT ![t] = result]
    /\ targ' = [targ EXCEPT ![t] = NoCall]
    /\ tloc' = [tloc EXCEPT ![t] = NoCall]

\* Thread t keeps its argument and its local.
Keeps(t) == UNCHANGED <<targ, tloc>>

\* Thread t goes on to the statement at pc.
Goes(t, pc) ==
    /\ tpc' = [tpc EXCEPT ![t] = pc]
    /\ tres' = [tres EXCEPT ![t] = NoCall]

\* get_proxy: if not self.proxies: return None
GetTest(t) ==
    /\ tpc[t] = "idle"
    /\ IF proxies = <<>> THEN Ends(t, None) ELSE Goes(t, "get_read") /\ Keeps(t)
    /\ UNCHANGED <<proxies, failed_proxies, current_index, get_result>>

\* get_proxy: proxy = self.proxies[self.current_index]
GetRead(t) ==
    /\ tpc[t] = "get_read"
    /\ IF current_index < Len(proxies)
       THEN /\ tloc' = [tloc EXCEPT ![t] = proxies[current_index + 1]]
            /\ Goes(t, "get_advance")
            /\ UNCHANGED targ
       ELSE Ends(t, IndexError)
    /\ UNCHANGED <<proxies, failed_proxies, current_index, get_result>>

\* get_proxy: self.current_index = (self.current_index + 1) % len(self.proxies),
\* and the return of the proxy read before.
GetAdvance(t) ==
    /\ tpc[t] = "get_advance"
    /\ IF proxies = <<>>
       THEN /\ Ends(t, "ZeroDivisionError")
            /\ UNCHANGED current_index
       ELSE /\ current_index' = (current_index + 1) % Len(proxies)
            /\ Ends(t, tloc[t])
    /\ UNCHANGED <<proxies, failed_proxies, get_result>>

\* add_proxy: if proxy not in self.proxies and proxy not in self.failed_proxies
AddTest(t, p) ==
    /\ tpc[t] = "idle"
    /\ IF p \notin Range(proxies) /\ p \notin Range(failed_proxies)
       THEN /\ Goes(t, "add_append")
            /\ targ' = [targ EXCEPT ![t] = p]
            /\ UNCHANGED tloc
       ELSE Ends(t, None)
    /\ UNCHANGED <<proxies, failed_proxies, current_index, get_result>>

\* add_proxy: self.proxies.append(proxy)
AddAppend(t) ==
    /\ tpc[t] = "add_append"
    /\ proxies' = Append(proxies, targ[t])
    /\ Ends(t, None)
    /\ UNCHANGED <<failed_proxies, current_index, get_result>>

\* remove_proxy: if proxy in self.proxies
RemoveTest(t, p) ==
    /\ tpc[t] = "idle"
    /\ IF p \in Range(proxies)
       THEN /\ Goes(t, "remove_remove")
            /\ targ' = [targ EXCEPT ![t] = p]
            /\ UNCHANGED tloc
       ELSE Ends(t, None)
    /\ UNCHANGED <<proxies, failed_proxies, current_index, get_result>>

\* remove_proxy: self.proxies.remove(proxy), ValueError when it is no longer there
RemoveRemove(t) ==
    /\ tpc[t] = "remove_remove"
    /\ IF targ[t] \in Range(proxies)
       THEN /\ proxies' = ListRemove(proxies, targ[t])
            /\ Goes(t, "remove_append")
            /\ Keeps(t)
       ELSE /\ Ends(t, "ValueError")
            /\ UNCHANGED proxies
    /\ UNCHANGED <<failed_proxies, current_index, get_result>>

\* remove_proxy: self.failed_proxies.append(proxy)
RemoveAppend(t) ==
    /\ tpc[t] = "remove_append"
    /\ failed_proxies' = Append(failed_proxies, targ[t])
    /\ Ends(t, None)
    /\ UNCHANGED <<proxies, current_index, get_result>>

notShVars == <<fetchVars, storeVars, runVars, limVars, servedVars, overlapVars>>

\* Two threads and a ProxyManager just built.
InitPoolShared == PoolFresh /\ FetchIdle /\ StoreEmpty /\ RunIdle /\ AuxIdle

NextPoolShared ==
    \/ \E t \in Callers : GetTest(t) /\ UNCHANGED notShVars
    \/ \E t \in Callers : GetRead(t) /\ UNCHANGED notShVars
    \/ \E t \in Callers : GetAdvance(t) /\ UNCHANGED notShVars
    \/ \E t \in Callers : \E p \in Proxies : AddTest(t, p) /\ UNCHANGED notShVars
    \/ \E t \in Callers : AddAppend(t) /\ UNCHANGED notShVars
    \/ \E t \in Callers : \E p \in Proxies : RemoveTest(t, p) /\ UNCHANGED notShVars
    \/ \E t \in Callers : RemoveRemove(t) /\ UNCHANGED notShVars
    \/ \E t \in Callers : RemoveAppend(t) /\ UNCHANGED notShVars

SpecPoolShared == InitPoolShared /\ [][NextPoolShared]_vars

\* ------------------------------------------ two runs upserting into one table
\* Each run has its own session (SessionLocal()); what a session adds or
\* changes is seen by the other run only once it is committed.

\* db.commit() of one run: its updates and its inserts reach the table, next to
\* what the other run committed in between. DailyQuote declares no unique
\* constraint, so every insert is kept.
CommitShared(rows, code, sess) ==
    {IF r.id \in DOMAIN sess.dirty THEN sess.dirty[r.id] ELSE r : r \in rows}
        \cup {NewRow(Cardinality(rows) + i, code, sess.added[i]) : i \in DOMAIN sess.added}

\* _upsert_quotes(db, stock_code, df) of run r: the queries see the committed
\* rows, the session takes the updates and the adds.
OverlapUpsert(r, code, records) ==
    /\ upc[r] = "idle"
    /\ \E maps \in [1..NumChunks(Len(records), max1(batch_size)) -> ExistingMaps(db_rows, code)] :
        usess' = [usess EXCEPT ![r] = UpsertQuotes(db_rows, code, records, batch_size, maps)]
    /\ upc' = [upc EXCEPT ![r] = "upserted"]
    /\ ucode' = [ucode EXCEPT ![r] = code]
    /\ urecords' = [urecords EXCEPT ![r] = records]
    /\ UNCHANGED storeVars

\* db.commit() of run r.
OverlapCommit(r) ==
    /\ upc[r] = "upserted"
    /\ Cardinality(db_rows) + Len(usess[r].added) <= MaxRows
    /\ db_rows' = CommitShared(db_rows, ucode[r], usess[r])
    /\ upc' = [upc EXCEPT ![r] = "committed"]
    /\ UNCHANGED <<batch_size, last_upsert, ucode, urecords, usess>>

notOverlapVars == <<poolVars, fetchVars, runVars, limVars, shVars, servedVars>>

\* Two runs and an empty table.
InitStoreShared == InitStore

NextStoreShared ==
    \/ \E r \in Callers, code \in Codes, records \in RecordLists :
            OverlapUpsert(r, code, records) /\ UNCHANGED notOverlapVars
    \/ \E r \in Callers : OverlapCommit(r) /\ UNCHANGED notOverlapVars

SpecStoreShared == InitStoreShared /\ [][NextStoreShared]_vars

\* ------------------------------------------------------------------ claims

\* C1: after any sequence of getNext, addProxy, markFailed and shuffle calls,
\* a non-empty active list has 0 <= cursor < len(active), and getNext returns
\* an element of active or nil and never fails.
C1_CursorValid ==
    /\ proxies # <<>> => (0 <= current_index /\ current_index < Len(proxies))
    /\ get_result # IndexError

Fails == Errors

\* C9: with at least one active proxy and a source whose every attempt times out,
\* the call issues the remote fetch exactly max_retries times, calls remove_proxy
\* at least once and returns Failure.
C9_AlwaysTimeout ==
    (/\ fpc = "returned"
     /\ start_pool # <<>>
     /\ \A k \in DOMAIN script : script[k] = "timeout")
    => (/\ Len(remote_calls) = max_retries
        /\ Len(removed) >= 1
        /\ fetch_result = "Failure")

\* C10: with a source that fails on its calls 1 and 2 and returns rows on call 3,
\* and max_retries >= 3, the call returns Series after exactly 3 remote fetches
\* and exactly 2 sleeps whose jitter-free parts are 1 s then 2 s.
C10_ThirdAttemptSucceeds ==
    (/\ fpc = "returned"
     /\ max_retries >= 3
     /\ script[1] \in Fails /\ script[2] \in Fails /\ script[3] = "data")
    => (/\ fetch_result = "Series"
        /\ Len(remote_calls) = 3
        /\ Len(sleeps) = 2
        /\ sleeps[1].base = 1 /\ sleeps[2].base = 2)

\* A row's key and its mutable fields.
KeyOf(r) == <<r.stock_code, r.date>>
FieldsOf(r) == <<r.open_price, r.high_price, r.low_price, r.close_price,
                 r.volume, r.amount, r.adjust_factor>>

\* C3: after any sequence of upsertQuotes calls the store holds at most one row
\* per (stockCode, tradeDate).
C3_UniqueKey ==
    \A r, q \in db_rows : KeyOf(r) = KeyOf(q) => r = q

\* The last record of a list for date d.
LastFor(records, d) ==
    records[CHOOSE i \in DOMAIN records :
                /\ records[i].date = d
                /\ \A j \in DOMAIN records : records[j].date = d => j <= i]

RecordDates(records) == {records[i].date : i \in DOMAIN records}

\* A step in which a committed _upsert_quotes call shows: the call differs from the
\* one before it, or the table changed.
UpsertStep == last_upsert' # last_upsert \/ db_rows' # db_rows

\* C4: after upsertQuotes(code, records) on a store that held a row for (code, D),
\* with D a date of records, every stored row for (code, D) carries the fields of
\* the incoming record for D, and the rows whose key is not in records are unchanged.
C4_Overwrites ==
    [][UpsertStep =>
        LET code == last_upsert'.stock_code
            records == last_upsert'.records
            touched(r) == r.stock_code = code /\ r.date \in RecordDates(records)
        IN /\ \A r \in db_rows' :
                (touched(r) /\ \E q \in db_rows : KeyOf(q) = KeyOf(r))
                    => FieldsOf(r) = FieldsOf(LastFor(records, r.date))
           /\ {r \in db_rows' : ~touched(r)} = {r \in db_rows : ~touched(r)}]_vars

\* The content of the table, ids put aside: each (key, fields) with how often it occurs.
Content(rows) ==
    {<<KeyOf(r), FieldsOf(r),
       Cardinality({q \in rows : KeyOf(q) = KeyOf(r) /\ FieldsOf(q) = FieldsOf(r)})>> : r \in rows}

\* C5: applying upsertQuotes(code, records) a second time in succession with the
\* same records leaves the store as the first application left it.
C5_Idempotent ==
    [][(last_upsert # NoUpsert /\ last_upsert' = last_upsert)
            => Content(db_rows') = Content(db_rows)]_vars

\* ---- the run

\* The number of instruments the loop counted.
NumCounted == Cardinality({i \in DOMAIN processed : processed[i].counted})

\* A step that hands the loop a Failure from the fetcher.
FailureDelivered == rpc = "fetching" /\ fpc = "returned" /\ fetch_result = "Failure"

\* What a run that reached Success shows: every instrument of the universe was
\* taken in order, each Failure was counted and added no record, and the
\* persisted counters are the loop's.
SuccessShape ==
    (rpc = "done" /\ fh_db.status = "success") =>
        /\ Len(processed) = Len(stock_list)
        /\ \A i \in DOMAIN processed :
            /\ processed[i].code = stock_list[i]
            /\ processed[i].fetch = "Failure" =>
                    processed[i].counted /\ processed[i].count = 0 /\ processed[i].error = NoCall
        /\ fh_db.stocks_processed = NumCounted

Terminal == {"success", "failed"}

\* C6: the persisted status moves only absent -> running, running -> success
\* and running -> failed, and a row that is success or failed is never
\* written again by a later step of the run.
C6_TerminalAbsorbing ==
    [][/\ fh_db.status \in Terminal => fh_db' = fh_db
       /\ fh_db.status' # fh_db.status =>
            \/ fh_db.status = "absent" /\ fh_db.status' = "running"
            \/ fh_db.status = "running" /\ fh_db.status' \in Terminal]_vars

\* A run that finalized Success and then returned, the row as finalized.
C6_Witness ==
    /\ rpc = "done" /\ run_return = "success"
    /\ fh_db.status = "success" /\ fh_db.completed_at
    /\ fh_db.stocks_processed > 0

\* C7: a run is Failed only through an exception raised outside the processing
\* of a single instrument (resolving the universe, the final audit write).
C7_FailedOnlyOutsideLoop ==
    fh_db.status = "failed" => raised_at \in {"resolve", "finalize"}

TimedOutWithProxy(c) == c.proxy_dict # None /\ c.outcome \in TimeoutClass

\* C11: remove_proxy(p) is called in an attempt exactly when the attempt got p
\* from get_proxy and its remote call failed with a timeout; when nothing was
\* evicted the two lists are as the call found them.
C11_EvictsOnTimeoutOnly ==
    LET due == SelectSeq(remote_calls, TimedOutWithProxy) IN
    /\ removed = [i \in DOMAIN due |-> due[i].proxy_dict]
    /\ removed = <<>> => proxies = start_pool /\ failed_proxies = <<>>

\* A step that issues a remote call answered with an empty frame.
EmptyAnswered ==
    /\ Len(remote_calls') = Len(remote_calls) + 1
    /\ remote_calls'[Len(remote_calls')].outcome = "empty"

\* C12: an empty frame from the source ends the call at once with EmptyResult:
\* the step sleeps nothing, evicts nothing, leaves the two lists alone, and no
\* remote call follows an empty answer.
C12_EmptyReturnsAtOnce ==
    /\ [](\A k \in DOMAIN remote_calls :
            remote_calls[k].outcome = "empty" =>
                k = Len(remote_calls) /\ fpc = "returned" /\ fetch_result = "EmptyResult")
    /\ [][EmptyAnswered =>
            /\ fpc' = "returned" /\ fetch_result' = "EmptyResult"
            /\ sleeps' = sleeps /\ removed' = removed /\ retry_count' = retry_count
            /\ proxies' = proxies /\ failed_proxies' = failed_proxies]_vars

\* An empty frame on the second attempt of three, after one failure and its sleep.
C12_Witness ==
    /\ fpc = "returned" /\ fetch_result = "EmptyResult"
    /\ max_retries = 3 /\ Len(remote_calls) = 2 /\ Len(sleeps) = 1
    /\ start_pool # <<>>

\* C13: when wait_if_needed() returns False in an attempt the call ends at once
\* with RateLimited: that step takes no proxy, issues no remote call, sleeps
\* nothing and evicts nothing, and nothing follows it.
C13_RateLimitedAtOnce ==
    /\ [](last_wait = "timeout" => fpc = "returned" /\ fetch_result = "RateLimited")
    /\ [][(last_wait' = "timeout" /\ last_wait # "timeout") =>
            /\ UNCHANGED poolVars
            /\ remote_calls' = remote_calls /\ sleeps' = sleeps /\ removed' = removed
            /\ retry_count' = retry_count]_vars

\* The controller gave up in the second attempt, after one remote call had failed.
C13_Witness ==
    /\ fpc = "returned" /\ fetch_result = "RateLimited" /\ last_wait = "timeout"
    /\ retry_count = 1 /\ Len(remote_calls) = 1 /\ max_retries = 3
    /\ start_pool # <<>>

\* C14: every remote call leaves through the proxy get_proxy returned in its
\* attempt, and directly only when get_proxy returned None.
C14_EgressIsProxy ==
    \A k \in DOMAIN remote_calls : remote_calls[k].egress = remote_calls[k].proxy_dict

\* C15: a call that has ended made at most max_retries attempts and at most
\* max_retries sleeps and returned one of Series, EmptyResult or Failure.
C15_ReturnsOneOfThree ==
    /\ retry_count <= max_retries
    /\ Len(remote_calls) <= max_retries
    /\ Len(sleeps) <= max_retries
    /\ fpc = "returned" => fetch_result \in {"Series", "EmptyResult", "Failure"}

\* ---- the controller

\* A step in which can_request() ran.
Requested == lim_last'.n # lim_last.n

\* C16: on an empty bucket, can_request() after a gap of at least one token's
\* time returns True and leaves the bucket empty however long the gap was, and
\* a can_request() that follows with no time in between returns False.
C16_OneTokenAfterIdle ==
    [][(Requested /\ tokens = 0) =>
            /\ since >= TicksPerToken => (lim_last'.result /\ tokens' = 0 /\ since' = 0)
            /\ since = 0 => (~lim_last'.result /\ tokens' = 0)]_vars

\* can_request() granted on an empty bucket after a gap longer than one token's time.
C16_Witness ==
    /\ lim_last.result /\ lim_last.before = 0 /\ lim_last.gap > TicksPerToken
    /\ tokens = 0 /\ ~was_reset

\* C17: in every state of the controller 0 <= tokens <= 1.
C17_TokensInRange == 0 <= tokens /\ tokens <= TicksPerToken

\* A refill that the cap cut short, after a reset and some waiting.
C17_Witness ==
    /\ lim_last.before + lim_last.gap > TicksPerToken /\ lim_last.before > 0
    /\ was_reset
    /\ wret[1] \in {"True", "False", "UnboundLocalError"}

\* C18: wait_if_needed(T) with a finite T returns False at its timeout test
\* exactly when more than T has passed since the call started, and a call that
\* returns True took one token.
C18_TimeoutHonoured ==
    [][\A c \in lim_callers :
        /\ (wpc[c] = "check" /\ wpc'[c] # "check" /\ wtimeout[c] # NoTimeout) =>
                ((welapsed[c] > wtimeout[c]) <=> (wret'[c] = "False"))
        /\ (wpc[c] = "try" /\ wret'[c] = "True") =>
                tokens' = Refill(tokens, since) - TicksPerToken]_vars

\* C19: with two threads on one controller the grants never exceed the initial
\* token plus what elapsed time refilled, and tokens stays within [0, 1].
C19_NoDoubleGrant ==
    /\ 0 <= tokens /\ tokens <= TicksPerToken
    /\ ~was_reset => granted * TicksPerToken + tokens <= TicksPerToken + lim_clock

\* Both threads were granted a token, one of them after waiting for it.
C19_Witness ==
    /\ lim_callers = Callers /\ ~was_reset
    /\ wret[1] = "True" /\ wret[2] = "True"
    /\ granted >= 2
    /\ wbound[1] \/ wbound[2]

\* ---- the shared pool

\* No thread is inside a method.
Quiet == \A t \in Callers : tpc[t] = "idle"

\* C20: with two threads calling get_proxy, add_proxy and remove_proxy on one
\* ProxyManager, whenever no call is in progress the two lists are disjoint,
\* proxies has no duplicate and the cursor is valid, and no call ever fails.
C20_SharedPoolAtomic ==
    /\ \A t \in Callers : tres[t] \notin {IndexError, "ZeroDivisionError", "ValueError"}
    /\ Quiet =>
        /\ Range(proxies) \cap Range(failed_proxies) = {}
        /\ NoDup(proxies)
        /\ proxies # <<>> => current_index < Len(proxies)

\* ---- the pool's lists and its rotation

\* C21: for a ProxyManager built from a duplicate-free list, after any sequence
\* of get_proxy, add_proxy, remove_proxy and rotate_proxies calls, proxies has
\* no duplicate and no proxy is in both proxies and failed_proxies.
C21_ListsDisjoint ==
    /\ NoDup(proxies)
    /\ Range(proxies) \cap Range(failed_proxies) = {}

\* A proxy was removed and another one added, and get_proxy has answered.
C21_Witness ==
    /\ failed_proxies # <<>>
    /\ Cardinality(Range(proxies) \cup Range(failed_proxies)) > MaxPool
    /\ get_result \in Range(proxies)

\* The proxy the i-th get_proxy call of a row is to return: list order, from
\* the cursor the row started at, wrapping around.
RoundRobin(i) == proxies[((served_from + i - 1) % Len(proxies)) + 1]

\* C22: with N >= 1 proxies and nothing but get_proxy called, the calls return
\* the proxies in list order starting at the cursor, each once per N calls, and
\* the next N calls repeat the order.
C22_RoundRobin ==
    proxies # <<>> => \A i \in DOMAIN served : served[i] = RoundRobin(i)

\* C23: remove_proxy(p) on a proxy of the pool makes proxies one shorter and
\* failed_proxies one longer; a second remove_proxy(p) changes neither list, and
\* failed_proxies never holds a proxy twice.
C23_RemoveOnceOnly ==
    /\ NoDup(failed_proxies)
    /\ \A p \in Range(proxies) :
        LET ps1 == RemoveProxyList(proxies, p)
            failed1 == RemoveProxyFailed(proxies, failed_proxies, p)
        IN /\ Len(ps1) = Len(proxies) - 1
           /\ Len(failed1) = Len(failed_proxies) + 1
           /\ RemoveProxyList(ps1, p) = ps1
           /\ RemoveProxyFailed(ps1, failed1, p) = failed1

\* A proxy has been removed and another one can be.
C23_Witness ==
    /\ failed_proxies # <<>>
    /\ proxies # <<>>

\* C24: add_proxy(p) appends p only when p is in neither list, and after
\* remove_proxy(p) no get_proxy call returns p, whatever add_proxy,
\* rotate_proxies and get_proxy calls are made.
C24_NoResurrection ==
    /\ \A p \in Proxies :
        AddProxyList(proxies, failed_proxies, p) # proxies
            => p \notin Range(proxies) \cup Range(failed_proxies)
    /\ Range(served) \cap Range(failed_proxies) = {}

\* get_proxy has returned a proxy while another one is in failed_proxies.
C24_Witness ==
    /\ failed_proxies # <<>>
    /\ served # <<>>
    /\ served[Len(served)] \in Range(proxies)

\* ---- the run's commits and counters

\* C25: the quote rows are committed instrument by instrument. A step that ends
\* in the per-instrument handler or in the outer except, and every step of
\* these two, leaves the committed rows as they are; a commit of one
\* instrument keeps the rows of the others; and the writes of an instrument
\* that failed are rolled back, never stored by a later commit.
C25_CommitsPerInstrument ==
    /\ [](leaked = {})
    /\ [][(rpc' \in {"handler", "except"} \/ rpc \in {"handler", "except", "recorded"})
            => db_rows' = db_rows]_vars
    /\ [][db_rows' # db_rows
            => {r \in db_rows : r.stock_code # stock_list[idx]} \subseteq db_rows']_vars

\* A run turned Failed by its second instrument, the rows of the first in the store.
C25_Witness ==
    /\ rpc = "done" /\ fh_db.status = "failed" /\ raised_at = "handler"
    /\ Len(processed) = 2
    /\ processed[1].count > 0 /\ processed[2].error = "store"
    /\ db_rows # {}
    /\ session_new = {}

\* The records the loop upserted and committed, summed over the instruments.
RECURSIVE SumCount(_)
SumCount(entries) ==
    IF entries = <<>> THEN 0 ELSE Head(entries).count + SumCount(Tail(entries))

C29_EveryInstrumentCounted ==
    fh_db.status = "success" => fh_db.stocks_processed = Len(stock_list)

\* C30: while the run is in its loop, the stored row carries the counters of
\* the instruments processed so far.
C30_RowFollowsLoop ==
    (rpc = "loop" /\ fh_db.status = "running") =>
        /\ fh_db.stocks_processed = stocks_processed
        /\ fh_db.records_inserted = records_inserted

\* ---- the fetcher's backoff and its use of the limiter

\* A step in which the source is called and raises.
AttemptFails ==
    /\ Len(remote_calls') = Len(remote_calls) + 1
    /\ remote_calls'[Len(remote_calls')].outcome \in Errors

\* The step appends one sleep of 2^retry_count plus a jitter within [0, 1].
SleepsBackoff ==
    /\ Len(sleeps') = Len(sleeps) + 1
    /\ SubSeq(sleeps', 1, Len(sleeps)) = sleeps
    /\ sleeps'[Len(sleeps')].base = Pow2(retry_count)
    /\ sleeps'[Len(sleeps')].jitter \in 0..1

\* C27 as stated: every attempt 0..max_retries-1 in which the source raises is
\* followed by a sleep of 2^retry_count + jitter and the increment of retry_count.
C27_SleepAfterEveryFailure ==
    [][AttemptFails => (SleepsBackoff /\ retry_count' = retry_count + 1)]_vars

\* C27: an attempt in which the source raises increments retry_count; when it
\* was not the last attempt (retry_count < max_retries - 1) it first sleeps
\* 2^retry_count + jitter, jitter within [0, 1], and when it was the last it
\* does not sleep; the jitter-free parts of successive sleeps double.
C27_SleepBetweenAttempts ==
    /\ [][AttemptFails =>
            /\ retry_count' = retry_count + 1
            /\ IF retry_count < max_retries - 1 THEN SleepsBackoff ELSE sleeps' = sleeps]_vars
    /\ [](\A i \in 1..(Len(sleeps) - 1) : sleeps[i + 1].base = 2 * sleeps[i].base)

\* Three attempts failed at the source: two sleeps, of 1 s and 2 s before jitter.
C27_Witness ==
    /\ fpc = "returned" /\ fetch_result = "Failure"
    /\ max_retries = 3 /\ Len(remote_calls) = 3
    /\ Len(sleeps) = 2
    /\ sleeps[1].base = 1 /\ sleeps[2].base = 2

\* C28: every call of the source is made in a pass of the loop whose
\* wait_if_needed() returned True, and a pass calls the source at most once, so
\* the remote fetches of a call never outnumber the tokens it acquired.
C28_TokenBeforeFetch ==
    [][remote_calls' # remote_calls =>
            /\ last_wait' = "granted"
            /\ Len(remote_calls') = Len(remote_calls) + 1
            /\ SubSeq(remote_calls', 1, Len(remote_calls)) = remote_calls]_vars

\* A retry has called the source after its own wait was granted.
C28_Witness ==
    /\ retry_count >= 1
    /\ Len(remote_calls) >= 2
    /\ last_wait = "granted"

\* ---- the universe of a run

\* The stored instruments that are not flagged.
Unflagged == {r.stock_code : r \in {q \in StockTable : q.is_st = FALSE}}

\* C31: the instruments a run takes are those of the stock_codes list when the
\* caller gave one, the empty list included, and the stored instruments that
\* are not flagged when it gave none.
C31_UniverseIsOverride ==
    rpc = "loop" =>
        Range(stock_list) = IF stock_codes.given THEN Range(stock_codes.codes) ELSE Unflagged

\* ---- _upsert_quotes and its chunks

\* What _upsert_quotes and the commit after it can leave and return, over the
\* rows the chunks' queries can hand back.
UpsertResults(rows, code, records, bs) ==
    {[rows |-> CommitRows(rows, code, UpsertQuotes(rows, code, records, bs, maps)),
      count |-> UpsertQuotes(rows, code, records, bs, maps).count] :
        maps \in [1..NumChunks(Len(records), max1(bs)) -> ExistingMaps(rows, code)]}

\* The chunks of records, one after the other.
RECURSIVE ChunksJoined(_, _, _)
ChunksJoined(records, bs, k) ==
    IF (k - 1) * bs >= Len(records) THEN <<>>
    ELSE Chunk(records, (k - 1) * bs, bs) \o ChunksJoined(records, bs, k + 1)

\* C32: for every batch size >= 1 the chunks hold each record once, in input
\* order, and the table and the count _upsert_quotes can leave are those of the
\* call that takes all records as one chunk.
C32_ChunkSizeIrrelevant ==
    \A code \in Codes, records \in RecordLists, bs \in 1..MaxBatch :
        /\ ChunksJoined(records, bs, 1) = records
        /\ UpsertResults(db_rows, code, records, bs)
                = UpsertResults(db_rows, code, records, Len(records))

\* ---- the fetcher on an empty pool

\* C33: in a pass of the loop that finds the pool empty (built empty, or
\* emptied by evictions), get_proxy returns None and changes nothing of the
\* pool, and the pass still calls the source, over a direct connection.
C33_EmptyPoolGoesDirect ==
    [][(/\ fpc = "attempt" /\ retry_count < max_retries
        /\ proxies = <<>>
        /\ last_wait' = "granted")
       => (/\ get_result' = None
           /\ proxies' = proxies
           /\ failed_proxies' = failed_proxies
           /\ current_index' = current_index
           /\ Len(remote_calls') = Len(remote_calls) + 1
           /\ remote_calls'[Len(remote_calls')].proxy_dict = None
           /\ remote_calls'[Len(remote_calls')].egress = None)]_vars

\* The only proxy was evicted and a later pass called the source without one.
C33_Witness ==
    /\ removed # <<>>
    /\ proxies = <<>>
    /\ Len(remote_calls) >= 2
    /\ remote_calls[Len(remote_calls)].proxy_dict = None
    /\ get_result = None

\* ---- rotate_proxies

\* C34: rotate_proxies keeps the proxies of the pool and failed_proxies as
\* they are, the order of proxies aside, and sets the cursor to 0; the
\* get_proxy calls that follow it, one per proxy, return every proxy once.
C34_RotateKeepsPool ==
    /\ [][(served_after' = "rotate_proxies" /\ served' = <<>>)
            => (/\ Range(proxies') = Range(proxies)
                /\ Len(proxies') = Len(proxies)
                /\ failed_proxies' = failed_proxies
                /\ current_index' = 0)]_vars
    /\ [](served_after = "rotate_proxies" /\ Len(served) = Len(proxies)
            => (Range(served) = Range(proxies) /\ NoDup(served)))

\* The cursor was off the start, the pool was rotated, and every proxy was returned once.
C34_Witness ==
    /\ served_after = "rotate_proxies"
    /\ Len(proxies) >= 2
    /\ Len(served) = Len(proxies)
    /\ served[1] = proxies[1]
    /\ failed_proxies # <<>>

\* ---- one instrument's fetch and the instruments before it

\* The responses of the source that raised.
NumErrors(sc) == Cardinality({k \in DOMAIN sc : sc[k] \in Errors})

\* The passes of the call that the limiter's exception took before the source
\* was asked.
PassesLost == retry_count - NumErrors(script)

\* What a call returns on the responses sc: the frame or the empty result of
\* the first response that is not an error, or Failure.
OutcomeOf(sc) ==
    IF sc # <<>> /\ sc[Len(sc)] = "data" THEN "Series"
    ELSE IF sc # <<>> /\ sc[Len(sc)] = "empty" THEN "EmptyResult"
    ELSE "Failure"

DatesDiffer(records) ==
    \A i, j \in DOMAIN records : records[i].date = records[j].date => i = j

\* C36: when two runs have each upserted and committed records, none of them
\* with a date twice, into a table that was empty, the table holds exactly one
\* row for every key that both upserted.
C36_OneRowPerSharedKey ==
    (/\ \A r \in Callers : upc[r] = "committed"
     /\ \A r \in Callers : DatesDiffer(urecords[r])
     /\ ucode[1] = ucode[2])
    => \A d \in RecordDates(urecords[1]) \cap RecordDates(urecords[2]) :
            Cardinality({q \in db_rows : q.stock_code = ucode[1] /\ q.date = d}) = 1

\* ---- the counter and the rollback

\* C37: the records of an instrument whose _upsert_quotes or commit raised, and
\* was rolled back, are not in records_inserted: the step that hands the
\* instrument to the per-instrument except leaves the counter as it was, so
\* that the counter a run is finalized with counts committed records only.
C37_RolledBackNotCounted ==
    [][rpc' = "handler" => records_inserted' = records_inserted]_vars

\* ---- wait_if_needed and its local

\* C38: wait_if_needed ends with True or False and never with an exception:
\* every pass of its loop that reaches the sleep has a wait_seconds computed
\* in that pass, also when the bucket fills between the failed can_request()
\* and the second locked block.
C38_WaitNeverRaises ==
    \A c \in Callers :
        /\ wret[c] \in {NoCall, "True", "False"}
        /\ wpc[c] = "sleep" => wbound[c]

\* ---- the audit row's end

\* C39: a fetch_history row stored with status running is eventually set to
\* success or failed, whatever write to the store fails on the way.
C39_RunningEnds ==
    (fh_db.status = "running") ~> (fh_db.status \in Terminal)

====
